---- MODULE Spec2Model ----
(***************************************************************************)
(* Model of the SLA prediction service: the MLPredictor serving facade     *)
(* (src/backend/app/ml/predictor.py), its fallback bank, and the startup   *)
(* code of the API (src/app/main.py).                                      *)
(*                                                                         *)
(* Numbers.  Feature values are floats in the source; here a feature is an *)
(* integer number of tenths (latency 10.0 ms is 100).  Probabilities are   *)
(* integers over ProbDen, raw detector scores integers over RawDen and     *)
(* anomaly scores integers over ScoreDen, so that every quotient the code  *)
(* computes is exact.                                                      *)
(*                                                                         *)
(* Trained artifacts are opaque pickles: a call on one is a choice over    *)
(* the outcomes its library type can produce.  The trained classifier is   *)
(* a fixed function of the vector, which trained_sla selects.              *)
(***************************************************************************)
EXTENDS Integers, Sequences, FiniteSets, TLC

VARIABLES
    model_dir,      \* the artifact directory on disk: [exists, files]
    sklearn_ok,     \* whether `from sklearn... import` succeeds in this process
    models,         \* MLPredictor.models: insertion-ordered dict name -> artifact
    scalers,        \* MLPredictor.scalers: insertion-ordered dict name -> artifact
    feature_names,  \* MLPredictor.feature_names
    models_loaded,  \* MLPredictor.models_loaded
    ml_predictor,   \* the global of main.py: "None" or "MLPredictor"
    last_load,      \* what the latest load_models() call did (its log lines)
    result,         \* outcome of the latest serving call
    trained_sla,    \* the classifier that sla_predictor.pkl holds
    smtp_port_ok,   \* whether the SMTP_PORT of the environment is a number
    alert_service,  \* the global of main.py: "None" or "AlertService"
    database,       \* the telemetry table: the rows stored, in order
    background_tasks, \* tasks the endpoints queued, not yet run
    response,       \* the answer of the latest API request
    trainer,        \* the MLTrainer of train.py and the row it labels
    loading         \* a load_models() call in progress: the assignments left

vars == <<model_dir, sklearn_ok, models, scalers, feature_names, models_loaded,
          ml_predictor, last_load, result, trained_sla, smtp_port_ok,
          alert_service, database, background_tasks, response, trainer, loading>>

\* what only the API layer touches
api_vars == <<alert_service, database, background_tasks, response>>

\* the process environment beside the artifact directory, and the offline
\* trainer, which the serving process never touches
process_vars == <<trained_sla, smtp_port_ok, trainer, loading>>

bundle_vars == <<models, scalers, feature_names, models_loaded>>

Max(a, b) == IF a >= b THEN a ELSE b
Min(a, b) == IF a <= b THEN a ELSE b

----------------------------------------------------------------------------
(* Python dicts keep insertion order: a dict is a sequence of [k, v].      *)

EmptyDict == <<>>

DictHas(d, k) == \E i \in 1..Len(d) : d[i].k = k

DictGet(d, k) == d[CHOOSE i \in 1..Len(d) : d[i].k = k].v

DictKeys(d) == [i \in 1..Len(d) |-> d[i].k]

\* d[k] = v: an existing key keeps its position, a new key is appended
DictSet(d, k, v) ==
    IF DictHas(d, k)
    THEN [i \in 1..Len(d) |-> IF d[i].k = k THEN [k |-> k, v |-> v] ELSE d[i]]
    ELSE Append(d, [k |-> k, v |-> v])

----------------------------------------------------------------------------
(* The artifact directory.                                                 *)

ModelFiles == <<"sla_predictor", "anomaly_detector", "shap_explainer">>

ScalerFiles == <<"standard">>

ArtifactFiles ==
    {"feature_names", "sla_predictor", "anomaly_detector", "shap_explainer",
     "scaler_standard"}

\* a file is absent, loads, or makes joblib.load throw
FileStates == {"absent", "ok", "corrupt"}

NoFiles == [f \in ArtifactFiles |-> "absent"]

Directories ==
    {[exists |-> FALSE, files |-> NoFiles]}
    \cup {[exists |-> TRUE, files |-> f] : f \in [ArtifactFiles -> FileStates]}

FeatureNames ==
    <<"bandwidth", "throughput", "congestion", "packet_loss", "latency", "jitter">>

----------------------------------------------------------------------------
(* MLPredictor.__init__ and load_models.  A bundle is the record of the    *)
(* four fields a load touches; a load in progress also carries the lines   *)
(* it has logged and whether an exception is leaving it.                   *)

NewPredictor ==
    [models |-> EmptyDict, scalers |-> EmptyDict, feature_names |-> <<>>,
     models_loaded |-> FALSE]

Bundle == [models |-> models, scalers |-> scalers,
           feature_names |-> feature_names, models_loaded |-> models_loaded]

\* _create_fallback_models without its try/except: a failed import leaves it
CreateFallbackNoCatch(b, importOk) ==
    IF importOk
    THEN [bundle |-> [models |-> DictSet(DictSet(b.models, "sla_predictor", "fallback"),
                                         "anomaly_detector", "fallback"),
                      scalers |-> DictSet(b.scalers, "standard", "fallback"),
                      feature_names |-> FeatureNames,
                      models_loaded |-> TRUE],
          fallback |-> "created", raised |-> FALSE]
    ELSE [bundle |-> b, fallback |-> "failed", raised |-> TRUE]

\* _create_fallback_models leaves models_loaded as it was when the import fails
CreateFallbackKeepFlag(b, importOk) ==
    IF importOk
    THEN CreateFallbackNoCatch(b, importOk)
    ELSE [bundle |-> b, fallback |-> "failed", raised |-> FALSE]

\* _create_fallback_models: the imports come first inside the try, so a
\* failure changes nothing but models_loaded
CreateFallbackModels(b, importOk) ==
    IF importOk
    THEN [bundle |-> [models |-> DictSet(DictSet(b.models, "sla_predictor", "fallback"),
                                         "anomaly_detector", "fallback"),
                      scalers |-> DictSet(b.scalers, "standard", "fallback"),
                      feature_names |-> FeatureNames,
                      models_loaded |-> TRUE],
          fallback |-> "created", raised |-> FALSE]
    ELSE [bundle |-> [b EXCEPT !.models_loaded = FALSE],
          fallback |-> "failed", raised |-> FALSE]

\* lines 36-44 with the list extended where the source assigns it
LoadFeatureNamesExtend(b, dir) ==
    IF dir.files["feature_names"] = "corrupt"
    THEN [bundle |-> b, threw |-> TRUE]
    ELSE [bundle |-> [b EXCEPT !.feature_names = @ \o FeatureNames], threw |-> FALSE]

\* lines 36-44: feature_names.pkl, or the default list
LoadFeatureNames(b, dir) ==
    CASE dir.files["feature_names"] = "corrupt" -> [bundle |-> b, threw |-> TRUE]
      [] dir.files["feature_names"] = "ok" ->
            [bundle |-> [b EXCEPT !.feature_names = FeatureNames], threw |-> FALSE]
      [] OTHER ->
            [bundle |-> [b EXCEPT !.feature_names = FeatureNames], threw |-> FALSE]

\* lines 53-59: the model files, in the order of the model_files dict; s is the
\* load so far, i the index of the next file
RECURSIVE LoadModelFiles(_, _, _)
LoadModelFiles(s, dir, i) ==
    IF s.threw \/ i > Len(ModelFiles) THEN s
    ELSE LET name == ModelFiles[i]
             st   == dir.files[name]
         IN CASE st = "corrupt" -> [s EXCEPT !.threw = TRUE]
              [] st = "ok" ->
                    LoadModelFiles(
                        [s EXCEPT !.bundle.models = DictSet(@, name, "trained")],
                        dir, i + 1)
              [] OTHER -> LoadModelFiles(s, dir, i + 1)

\* lines 61-68: scaler_standard.pkl
LoadScalers(s, dir) ==
    IF s.threw THEN s
    ELSE CASE dir.files["scaler_standard"] = "corrupt" -> [s EXCEPT !.threw = TRUE]
           [] dir.files["scaler_standard"] = "ok" ->
                 [s EXCEPT !.bundle.scalers = DictSet(@, ScalerFiles[1], "trained")]
           [] OTHER -> s

\* load_models when every load failure propagates instead of being caught
LoadModelsNoCatch(b, dir, importOk) ==
    IF ~dir.exists
    THEN CreateFallbackModels(b, importOk) @@ [threw |-> FALSE]
    ELSE LET s == LoadScalers(LoadModelFiles(LoadFeatureNames(b, dir), dir, 1), dir)
         IN CASE s.threw ->
                   [bundle |-> s.bundle, fallback |-> "none", raised |-> TRUE,
                    threw |-> TRUE]
              [] s.bundle.models = EmptyDict ->
                   CreateFallbackModels(s.bundle, importOk) @@ [threw |-> FALSE]
              [] OTHER ->
                   [bundle |-> [s.bundle EXCEPT !.models_loaded = TRUE],
                    fallback |-> "none", raised |-> FALSE, threw |-> FALSE]

\* load_models: [bundle, fallback, raised, threw]; threw says the except
\* clause of line 78 ran, raised that an exception reaches the caller
LoadModels(b, dir, importOk) ==
    IF ~dir.exists
    THEN CreateFallbackModels(b, importOk) @@ [threw |-> FALSE]
    ELSE LET s == LoadScalers(LoadModelFiles(LoadFeatureNames(b, dir), dir, 1), dir)
         IN CASE s.threw ->
                   CreateFallbackModels(s.bundle, importOk) @@ [threw |-> TRUE]
              [] s.bundle.models = EmptyDict ->
                   CreateFallbackModels(s.bundle, importOk) @@ [threw |-> FALSE]
              [] OTHER ->
                   [bundle |-> [s.bundle EXCEPT !.models_loaded = TRUE],
                    fallback |-> "none", raised |-> FALSE, threw |-> FALSE]

\* load_models one assignment at a time: the predictor after each assignment
\* the call makes, in the order it makes them.

\* lines 143-158 with models_loaded set before the stand-ins are in place
FallbackStepsFlagFirst(b, importOk) ==
    IF importOk
    THEN LET b0 == [b EXCEPT !.models_loaded = TRUE]
             b1 == [b0 EXCEPT !.models = DictSet(@, "sla_predictor", "fallback")]
             b2 == [b1 EXCEPT !.models = DictSet(@, "anomaly_detector", "fallback")]
             b3 == [b2 EXCEPT !.scalers = DictSet(@, "standard", "fallback")]
             b4 == [b3 EXCEPT !.feature_names = FeatureNames]
         IN <<b0, b1, b2, b3, b4>>
    ELSE <<[b EXCEPT !.models_loaded = FALSE]>>

\* _create_fallback_models: lines 143, 144, 151, 153, 158, or line 163
FallbackSteps(b, importOk) ==
    IF importOk
    THEN LET b1 == [b EXCEPT !.models = DictSet(@, "sla_predictor", "fallback")]
             b2 == [b1 EXCEPT !.models = DictSet(@, "anomaly_detector", "fallback")]
             b3 == [b2 EXCEPT !.scalers = DictSet(@, "standard", "fallback")]
             b4 == [b3 EXCEPT !.feature_names = FeatureNames]
             b5 == [b4 EXCEPT !.models_loaded = TRUE]
         IN <<b1, b2, b3, b4, b5>>
    ELSE <<[b EXCEPT !.models_loaded = FALSE]>>

\* line 56, once for every model file that loads before one throws
RECURSIVE ModelFileSteps(_, _, _)
ModelFileSteps(b, dir, i) ==
    IF i > Len(ModelFiles) THEN <<>>
    ELSE LET name == ModelFiles[i]
             st   == dir.files[name]
             nb   == [b EXCEPT !.models = DictSet(@, name, "trained")]
         IN CASE st = "corrupt" -> <<>>
              [] st = "ok" -> <<nb>> \o ModelFileSteps(nb, dir, i + 1)
              [] OTHER -> ModelFileSteps(b, dir, i + 1)

\* lines 27-80
LoadSteps(b, dir, importOk) ==
    IF ~dir.exists
    THEN FallbackSteps(b, importOk)
    ELSE LET s1 == LoadFeatureNames(b, dir)
             s2 == LoadModelFiles(s1, dir, 1)
             s3 == LoadScalers(s2, dir)
             names  == IF s1.threw THEN <<>> ELSE <<s1.bundle>>
             files  == IF s1.threw THEN <<>> ELSE ModelFileSteps(s1.bundle, dir, 1)
             scaler == IF ~s2.threw /\ dir.files["scaler_standard"] = "ok"
                       THEN <<s3.bundle>> ELSE <<>>
             finish == IF s3.threw \/ s3.bundle.models = EmptyDict
                       THEN FallbackSteps(s3.bundle, importOk)
                       ELSE <<[s3.bundle EXCEPT !.models_loaded = TRUE]>>
         IN names \o files \o scaler \o finish

NotLoading == [started |-> FALSE, steps |-> <<>>]

\* get_model_info (model_directory is the constructor argument, a constant)
GetModelInfo(b) ==
    [models_loaded |-> b.models_loaded,
     available_models |-> DictKeys(b.models),
     feature_names |-> b.feature_names]

----------------------------------------------------------------------------
(* Units.  A feature value x is carried as 10*x.  predict_proba divides by *)
(* 20, 10 and 2 and then by 3; decision_function by 30, 20 and 10 and then *)
(* by 3; the anomaly score halves 1 - raw.                                 *)

ProbDen == 3 * 200

RawDen == 3 * 600

ScoreDen == 2 * RawDen

ImportanceDen == 100 * 100

\* 0-based row[i] of the source is f[i + 1]
Row(f, i) == f[i + 1]

NoValue == [kind |-> "none"]

\* logged is the logger.error line of the method's except clause, if it ran
NoResult ==
    [op |-> "none", features |-> <<>>, status |-> "none", error |-> "none",
     value |-> NoValue, logged |-> "none"]

\* the not-loaded error is raised before the try; every other one passes
\* through the except clause, which logs it and raises it again
Raised(op, f, err) ==
    [op |-> op, features |-> f, status |-> "raised", error |-> err, value |-> NoValue,
     logged |-> IF err = "not_loaded" THEN "none" ELSE err]

Returned(op, f, val) ==
    [op |-> op, features |-> f, status |-> "returned", error |-> "none", value |-> val,
     logged |-> "none"]

----------------------------------------------------------------------------
(* The fallback bank (classes defined inside _create_fallback_models).     *)

\* the predict rules with thresholds that include their bound
FallbackSLAPredictInclusive(f) ==
    IF Row(f, 4) >= 100 \/ Row(f, 3) >= 50 \/ Row(f, 1) <= 10 THEN 1 ELSE 0

\* FallbackSLAPredictor.predict on one row
FallbackSLAPredict(f) ==
    IF Row(f, 4) > 100 \/ Row(f, 3) > 50 \/ Row(f, 1) < 10 THEN 1 ELSE 0

\* predict_proba without the min(.., 1) caps
FallbackSLAProbaUncapped(f) ==
    Row(f, 4) + 2 * Row(f, 3) + 10 * Max(0, 20 - Row(f, 1))

\* FallbackSLAPredictor.predict_proba on one row: probabilities[1] over ProbDen
FallbackSLAProba(f) ==
    Min(Row(f, 4), 200) + 2 * Min(Row(f, 3), 100) + 10 * Max(0, 20 - Row(f, 1))

\* the detector rules with the latency threshold of the anomaly explanation
FallbackAnomalyPredictLatency15(f) ==
    IF Row(f, 4) > 150 \/ Row(f, 3) > 150 \/ Row(f, 5) > 50 THEN -1 ELSE 1

\* FallbackAnomalyDetector.predict on one row: -1 anomaly, 1 normal
FallbackAnomalyPredict(f) ==
    IF Row(f, 4) > 200 \/ Row(f, 3) > 150 \/ Row(f, 5) > 50 THEN -1 ELSE 1

\* decision_function without the clamp to [-1, 1]
FallbackDecisionUnclamped(f) ==
    RawDen - (2 * Row(f, 4) + 3 * Row(f, 3) + 6 * Row(f, 5))

\* FallbackAnomalyDetector.decision_function on one row, over RawDen
FallbackDecisionFunction(f) ==
    Max(-RawDen, Min(RawDen, RawDen - (2 * Row(f, 4) + 3 * Row(f, 3) + 6 * Row(f, 5))))

----------------------------------------------------------------------------
(* Trained artifacts.  The classifier is a RandomForest or an XGBoost      *)
(* model: its label is 1 exactly when its probability is above 0.5.  The   *)
(* detector is an IsolationForest: its label is -1 exactly when its        *)
(* decision_function is negative, and that value lies inside (-1, 1).      *)
(* The sets below are samples of those ranges, border values included.     *)

TrainedProbaSeq == <<0, 150, 300, 301, 600>>

TrainedProbas == {TrainedProbaSeq[i] : i \in 1..Len(TrainedProbaSeq)}

\* the classifiers sla_predictor.pkl may hold: with or without predict_proba,
\* seed naming one function from vectors to probabilities
TrainedClassifiers == [has_proba : BOOLEAN, seed : {0, 2}]

DefaultClassifier == [has_proba |-> TRUE, seed |-> 0]

\* predict_proba(x)[0][1] of classifier c: the same for the same vector
TrainedProba(c, f) ==
    TrainedProbaSeq[(((f[2] + f[4] + f[5]) \div 10 + c.seed) % Len(TrainedProbaSeq)) + 1]

\* predict(x)[0] of classifier c: 1 exactly above one half
TrainedPredict(c, f) == IF TrainedProba(c, f) > ProbDen \div 2 THEN 1 ELSE 0

TrainedDecisions == {-(RawDen - 1), -1, 0, 900, RawDen - 1}

\* 0.85 + np.random.random() * 0.1, np.random.random() in [0, 1)
Confidences == {510, 540, 569}

\* StandardScaler.transform: (x - mean) / scale per feature, any real vector
ScalerShifts == {0, 400, 3000}

TrainedScalerTransform(f) == {[i \in DOMAIN f |-> f[i] - m] : m \in ScalerShifts}

\* what a TreeExplainer answers: shap_values[0], six attributions over
\* ImportanceDen, and its expected_value
TrainedExplanations ==
    {[shap_values |-> <<0, 0, 0, 0, 0, 0>>, expected_value |-> 0],
     [shap_values |-> <<-500, 1200, 0, 2500, 3100, -40>>, expected_value |-> 3700]}

----------------------------------------------------------------------------
(* MLPredictor.predict_sla_violation: the set of its possible outcomes.    *)

\* the guard of line 167 without the models_loaded test
SLANotLoadedKeyOnly(b) == ~DictHas(b.models, "sla_predictor")

\* line 167
SLANotLoaded(b) == ~b.models_loaded \/ ~DictHas(b.models, "sla_predictor")

SLAValue(pred, proba, conf) ==
    [kind |-> "risk", prediction |-> pred, probability |-> proba,
     confidence |-> conf, model_version |-> "v1.0"]

\* lines 180-185 with the random draw of line 188 used as the probability
SLAProbabilityFromDraw(pred, hasProba, proba, conf) == conf

\* lines 180-185: probabilities[1], or float(prediction) without predict_proba
SLAProbability(pred, hasProba, proba, conf) ==
    IF hasProba THEN proba ELSE pred * ProbDen

\* lines 170-199 on a loaded classifier; a trained one may also raise
SLAModelOutcomes(kind, f) ==
    IF kind = "fallback"
    THEN IF Len(f) < 5
         THEN {Raised("predict_sla_violation", f, "IndexError")}
         ELSE {Returned("predict_sla_violation", f,
                        SLAValue(FallbackSLAPredict(f),
                                 SLAProbability(FallbackSLAPredict(f), TRUE,
                                                FallbackSLAProba(f), c), c)) :
               c \in Confidences}
    ELSE IF Len(f) # 6
         THEN {Raised("predict_sla_violation", f, "ValueError")}
         ELSE {Returned("predict_sla_violation", f,
                        SLAValue(TrainedPredict(trained_sla, f),
                                 SLAProbability(TrainedPredict(trained_sla, f),
                                                trained_sla.has_proba,
                                                TrainedProba(trained_sla, f), c), c)) :
               c \in Confidences}
              \cup {Raised("predict_sla_violation", f, "model_error")}

predict_sla_violation(b, f) ==
    IF SLANotLoaded(b)
    THEN {Raised("predict_sla_violation", f, "not_loaded")}
    ELSE SLAModelOutcomes(DictGet(b.models, "sla_predictor"), f)

----------------------------------------------------------------------------
(* MLPredictor.detect_anomaly.                                             *)

\* line 203
AnomalyNotLoaded(b) == ~b.models_loaded \/ ~DictHas(b.models, "anomaly_detector")

\* _generate_anomaly_explanation with the latency bound at 25 ms
GenerateAnomalyExplanationLatency25(f, isAnomaly) ==
    IF ~isAnomaly THEN <<"Network metrics are within normal parameters">>
    ELSE LET explanations ==
                 (IF f[5] > 250 THEN <<"High latency detected">> ELSE <<>>)
                 \o (IF f[4] > 50 THEN <<"High packet loss detected">> ELSE <<>>)
                 \o (IF f[6] > 50 THEN <<"High jitter detected">> ELSE <<>>)
                 \o (IF f[3] > 800 THEN <<"High network congestion">> ELSE <<>>)
                 \o (IF 10 * f[2] < 3 * f[1]
                     THEN <<"Low throughput efficiency">> ELSE <<>>)
         IN IF explanations # <<>> THEN explanations
            ELSE <<"Anomalous pattern detected in network metrics">>

\* _generate_anomaly_explanation: the parts joined by "; ", as a sequence
GenerateAnomalyExplanation(f, isAnomaly) ==
    IF ~isAnomaly THEN <<"Network metrics are within normal parameters">>
    ELSE LET bandwidth   == f[1]
             throughput  == f[2]
             congestion  == f[3]
             packet_loss == f[4]
             latency     == f[5]
             jitter      == f[6]
             explanations ==
                 (IF latency > 150 THEN <<"High latency detected">> ELSE <<>>)
                 \o (IF packet_loss > 50 THEN <<"High packet loss detected">> ELSE <<>>)
                 \o (IF jitter > 50 THEN <<"High jitter detected">> ELSE <<>>)
                 \o (IF congestion > 800 THEN <<"High network congestion">> ELSE <<>>)
                 \o (IF 10 * throughput < 3 * bandwidth
                     THEN <<"Low throughput efficiency">> ELSE <<>>)
         IN IF explanations # <<>> THEN explanations
            ELSE <<"Anomalous pattern detected in network metrics">>

\* line 227: max(0, (1 - score) / 2), over ScoreDen
AnomalyScore(raw) == Max(0, RawDen - raw)

\* line 229: 0.8 if is_anomaly else 0.2, over ScoreDen
AnomalyScoreNoDecision(isAnomaly) ==
    IF isAnomaly THEN (8 * ScoreDen) \div 10 ELSE (2 * ScoreDen) \div 10

AnomalyValue(isAnomaly, score, explanation) ==
    [kind |-> "anomaly", is_anomaly |-> isAnomaly, anomaly_score |-> score,
     explanation |-> explanation]

\* lines 231-238: the explanation unpacks exactly six values
AnomalyFinish(f, isAnomaly, score) ==
    IF isAnomaly /\ Len(f) # 6
    THEN Raised("detect_anomaly", f, "ValueError")
    ELSE Returned("detect_anomaly", f,
                  AnomalyValue(isAnomaly, score, GenerateAnomalyExplanation(f, isAnomaly)))

\* lines 210-214: the vectors the scaler can hand to the detector
ScaledFeatures(b, f) ==
    IF DictHas(b.scalers, "standard") /\ DictGet(b.scalers, "standard") = "trained"
    THEN IF Len(f) # 6 THEN {} ELSE TrainedScalerTransform(f)
    ELSE {f}

\* lines 216-238 on a loaded detector, sf the scaled vector
AnomalyModelOutcomes(kind, f, sf) ==
    IF kind = "fallback"
    THEN IF Len(sf) < 6
         THEN {Raised("detect_anomaly", f, "IndexError")}
         ELSE {AnomalyFinish(f, FallbackAnomalyPredict(sf) = -1,
                             AnomalyScore(FallbackDecisionFunction(sf)))}
    ELSE IF Len(sf) # 6
         THEN {Raised("detect_anomaly", f, "ValueError")}
         ELSE {AnomalyFinish(f, raw < 0, AnomalyScore(raw)) : raw \in TrainedDecisions}
              \cup
              \* a detector without decision_function
              {AnomalyFinish(f, a, AnomalyScoreNoDecision(a)) : a \in BOOLEAN}
              \cup {Raised("detect_anomaly", f, "model_error")}

detect_anomaly(b, f) ==
    IF AnomalyNotLoaded(b)
    THEN {Raised("detect_anomaly", f, "not_loaded")}
    ELSE IF ScaledFeatures(b, f) = {}
         THEN {Raised("detect_anomaly", f, "ValueError")}
         ELSE UNION {AnomalyModelOutcomes(DictGet(b.models, "anomaly_detector"), f, sf) :
                     sf \in ScaledFeatures(b, f)}

----------------------------------------------------------------------------
(* MLPredictor.explain_prediction.                                         *)

\* line 246
ExplainNotLoaded(b) == ~b.models_loaded

ImportanceWeights == <<10, 15, 20, 25, 25, 5>>

\* dict(zip(keys, values)): zip stops at the shorter sequence
ZipDict(keys, values) ==
    [i \in 1..Min(Len(keys), Len(values)) |-> [k |-> keys[i], v |-> values[i]]]

ExplanationValue(importance, values, base) ==
    [kind |-> "explanation", feature_importance |-> importance,
     shap_values |-> values, base_value |-> base]

\* _generate_simple_explanation without min(.., 1)
GenerateSimpleExplanationUnclamped(b, f) ==
    LET n == Min(Len(b.feature_names), Len(ImportanceWeights))
        importance == [i \in 1..n |-> f[i] * ImportanceWeights[i]]
    IN IF Len(f) < n
       THEN Raised("explain_prediction", f, "IndexError")
       ELSE Returned("explain_prediction", f,
                ExplanationValue(ZipDict(b.feature_names, importance), importance,
                                 ImportanceDen \div 2))

\* _generate_simple_explanation leaving out the last of the weights
GenerateSimpleExplanationShort(b, f) ==
    LET n == Min(Len(b.feature_names), Len(ImportanceWeights) - 1)
        importance == [i \in 1..n |-> Min(f[i], 100) * ImportanceWeights[i]]
    IN IF Len(f) < n
       THEN Raised("explain_prediction", f, "IndexError")
       ELSE Returned("explain_prediction", f,
                ExplanationValue(ZipDict(b.feature_names, importance), importance,
                                 ImportanceDen \div 2))

\* _generate_simple_explanation: zip stops at the shorter of feature_names and
\* the weights; features[i] raises when the vector is shorter than that
GenerateSimpleExplanation(b, f) ==
    LET n == Min(Len(b.feature_names), Len(ImportanceWeights))
        importance == [i \in 1..n |-> Min(f[i], 100) * ImportanceWeights[i]]
    IN IF Len(f) < n
       THEN Raised("explain_prediction", f, "IndexError")
       ELSE Returned("explain_prediction", f,
                ExplanationValue(ZipDict(b.feature_names, importance), importance,
                                 ImportanceDen \div 2))

\* lines 268-270: the except clause logs the explainer's error and answers
\* with the simple explanation in its place
ExplainAfterError(b, f) ==
    [GenerateSimpleExplanation(b, f) EXCEPT !.logged = "explainer_error"]

\* lines 249-270: a loaded explainer answers, or raises (always, on a vector
\* that is not of its six columns) and the except clause answers
explain_prediction(b, f) ==
    IF ExplainNotLoaded(b)
    THEN {Raised("explain_prediction", f, "not_loaded")}
    ELSE IF DictHas(b.models, "shap_explainer")
         THEN (IF Len(f) # 6 THEN {}
               ELSE {Returned("explain_prediction", f,
                         ExplanationValue(ZipDict(b.feature_names, e.shap_values),
                                          e.shap_values, e.expected_value)) :
                     e \in TrainedExplanations})
              \cup {ExplainAfterError(b, f)}
         ELSE {GenerateSimpleExplanation(b, f)}

----------------------------------------------------------------------------
(* MLTrainer of train.py.  The frame is followed through one of its rows,  *)
(* values in tenths; an AUC is in hundredths.                              *)

\* MLTrainer.__init__; row, random_factor and label are of the frame
NewTrainer ==
    [stage |-> "new", models |-> EmptyDict, scalers |-> EmptyDict,
     feature_names |-> FeatureNames, row |-> <<>>, random_factor |-> FALSE,
     label |-> 0, rf_score |-> 0, xgb_score |-> 0, best_score |-> 0]

\* rows around every threshold of the label rule, bandwidth 0 included
TrainRows ==
    {<<bw, th, co, pl, la, ji>> :
        bw \in {0, 100}, th \in {0, 29, 30, 50}, co \in {800, 801},
        pl \in {50, 51}, la \in {100, 150, 151}, ji \in {30, 31}}

AucScores == {50, 80, 95}

\* the conditions of _generate_sla_labels with bounds that include their value
SLAConditionsInclusive(row) ==
    \/ row[5] >= 150
    \/ row[4] >= 50
    \/ row[6] >= 30
    \/ row[3] >= 800
    \/ (row[1] # 0 /\ 10 * row[2] <= 3 * row[1])

\* lines 60-66: x / 0 is inf or NaN in the frame, and neither is < 0.3
SLAConditions(row) ==
    \/ row[5] > 150
    \/ row[4] > 50
    \/ row[6] > 30
    \/ row[3] > 800
    \/ (row[1] # 0 /\ 10 * row[2] < 3 * row[1])

\* lines 68-71: (conditions | random_factor).astype(int)
GenerateSLALabels(row, randomFactor) ==
    IF SLAConditions(row) \/ randomFactor THEN 1 ELSE 0

\* the selection with a tie going to XGBoost
SelectBestModelTieXgb(rfScore, xgbScore) ==
    IF xgbScore >= rfScore
    THEN [model |-> "XGBoost", score |-> xgbScore]
    ELSE [model |-> "RandomForest", score |-> rfScore]

\* lines 114-122
SelectBestModel(rfScore, xgbScore) ==
    IF xgbScore > rfScore
    THEN [model |-> "XGBoost", score |-> xgbScore]
    ELSE [model |-> "RandomForest", score |-> rfScore]

\* lines 125-139: the models stored, in order; the explainer only when shap
\* could build it
TrainedModels(best, explainerOk) ==
    LET m1 == DictSet(EmptyDict, "sla_predictor", best.model)
        m2 == DictSet(m1, "rf_baseline", "RandomForest")
        m3 == DictSet(m2, "xgb_production", "XGBoost")
        m4 == DictSet(m3, "anomaly_detector", "IsolationForest")
    IN IF explainerOk THEN DictSet(m4, "shap_explainer", "TreeExplainer") ELSE m4

\* save_models: a file for every model the predictor reads, the scaler, and
\* the feature names
SavedFiles(t) ==
    [f \in ArtifactFiles |->
        IF \/ f = "feature_names"
           \/ DictHas(t.models, f)
           \/ \E i \in 1..Len(ScalerFiles) :
                 f = "scaler_" \o ScalerFiles[i] /\ DictHas(t.scalers, ScalerFiles[i])
        THEN "ok" ELSE "absent"]

----------------------------------------------------------------------------
(* State machine.                                                          *)

\* last_load before any load_models() call against the directory as it is
NoLoad ==
    [called |-> FALSE, threw |-> FALSE, fallback |-> "none", raised |-> FALSE,
     repeat |-> FALSE, prev_info |-> GetModelInfo(NewPredictor)]

\* the record of a load: repeat says another load came before it with the
\* directory and the process unchanged in between, prev_info what
\* get_model_info() answered after that one
LoadRecord(r, before) ==
    [called |-> TRUE, threw |-> r.threw, fallback |-> r.fallback, raised |-> r.raised,
     repeat |-> last_load.called,
     prev_info |-> IF last_load.called THEN GetModelInfo(before)
                   ELSE GetModelInfo(NewPredictor)]

\* the feature vectors of the two end-to-end examples, in tenths
ExampleVectors ==
    {<<1000, 200, 100, 10, 50, 5>>, <<500, 50, 900, 80, 250, 60>>}

\* the example vectors, and each with a value missing and with one too many
ServeVectors ==
    ExampleVectors
    \cup {SubSeq(f, 1, 5) : f \in ExampleVectors}
    \cup {Append(f, 0) : f \in ExampleVectors}

\* valid vectors around every threshold of the fallback rules
Vectors ==
    {<<bw, th, co, pl, la, ji>> :
        bw \in {500, 1000}, th \in {0, 10, 50, 200}, co \in {100, 900},
        pl \in {0, 10, 50, 80, 150, 160, 1000},
        la \in {50, 100, 110, 200, 250, 3000},
        ji \in {5, 50, 60}}

\* the API layer of main.py.  A request body is the TelemetryCreate the
\* framework validated: the six metrics (tenths) and the optional sla_violation
TelemetryFields ==
    {"network_measure", "network_target", "bandwidth", "throughput", "congestion",
     "packet_loss", "latency", "jitter", "sla_violation"}

Metrics(t) ==
    <<t.bandwidth, t.throughput, t.congestion, t.packet_loss, t.latency, t.jitter>>

TelemetryCreate(f, sv) ==
    [network_measure |-> "a", network_target |-> "b", bandwidth |-> f[1],
     throughput |-> f[2], congestion |-> f[3], packet_loss |-> f[4],
     latency |-> f[5], jitter |-> f[6], sla_violation |-> sv]

\* telemetry.dict(): every field of the schema, sla_violation included
TelemetryDict(t) == [k \in TelemetryFields |-> t[k]]

\* f(**d, key=v): Python raises TypeError when d already holds key
CallWithKeywords(d, key, v) ==
    IF key \in DOMAIN d
    THEN [raised |-> TRUE, kwargs |-> d]
    ELSE [raised |-> FALSE, kwargs |-> [k \in DOMAIN d \cup {key} |->
                                           IF k = key THEN v ELSE d[k]]]

\* request bodies: the two examples, a saturated link, a link without
\* bandwidth, a link with a latency of 11 ms
ApiMetrics ==
    ExampleVectors
    \cup {<<500, 0, 900, 160, 250, 60>>, <<0, 0, 100, 10, 50, 5>>,
          <<1000, 200, 100, 10, 110, 5>>}

ApiTelemetry == {TelemetryCreate(f, "None") : f \in ApiMetrics}

\* Optional[bool] of an int label
BoolOf(label) == IF label = 1 THEN "True" ELSE "False"

\* rows the table holds at most, tasks the queue holds at most
MaxRows == 2

MaxTasks == 2

\* db.commit() succeeds or raises
DbOutcomes == {"committed", "failed"}

\* crud.create_telemetry: the row of the kwargs, its id given by the table
NewRow(db, kwargs) == [id |-> Len(db) + 1, telemetry |-> kwargs]

\* logged is the exception the handler's except clause logged, prediction
\* what the handler had predicted, scheduled the tasks it queued
NoResponse ==
    [endpoint |-> "none", status |-> 0, detail |-> "none", body |-> NoValue,
     prediction |-> NoValue, scheduled |-> <<>>, logged |-> "none"]

\* an HTTPException leaves the handler
HttpError(endpoint, code, detail, prediction, logged) ==
    [endpoint |-> endpoint, status |-> code, detail |-> detail, body |-> NoValue,
     prediction |-> prediction, scheduled |-> <<>>, logged |-> logged]

HttpOk(endpoint, body, prediction, scheduled) ==
    [endpoint |-> endpoint, status |-> 200, detail |-> "none", body |-> body,
     prediction |-> prediction, scheduled |-> scheduled, logged |-> "none"]

\* background_tasks.add_task(name, ...) queues the function and its arguments
Task(name, id, score) == [task |-> name, telemetry_id |-> id, risk_score |-> score]

RetrainTask == Task("retrain_models_task", 0, 0)

\* lines 298-305 of main.py: the alert task of a high-risk prediction
HighRiskAlerts(prediction, service, row) ==
    IF prediction.probability * 100 > 75 * ProbDen /\ service # "None"
    THEN <<Task("send_high_risk_alert", row.id, prediction.probability)>>
    ELSE <<>>

\* directories the API specification starts from: none, the trained set
\* complete, the classifier alone, the detector alone
ApiDirectories ==
    {[exists |-> FALSE, files |-> NoFiles],
     [exists |-> TRUE, files |-> [f \in ArtifactFiles |-> "ok"]],
     [exists |-> TRUE, files |-> [NoFiles EXCEPT !["sla_predictor"] = "ok"]],
     [exists |-> TRUE, files |-> [NoFiles EXCEPT !["anomaly_detector"] = "ok"]]}

\* directories the scoring specification starts from: no directory, and
\* every directory without a corrupt file that holds the feature names and
\* either both or none of classifier and detector
ScoringDirectories ==
    {d \in Directories :
        /\ d.files["feature_names"] = (IF d.exists THEN "ok" ELSE "absent")
        /\ \A f \in ArtifactFiles : d.files[f] # "corrupt"
        /\ d.files["sla_predictor"] = d.files["anomaly_detector"]}

\* the process before its startup ran: the globals of main.py are None, no
\* request was answered; the table starts empty
StartState ==
    /\ models = NewPredictor.models
    /\ scalers = NewPredictor.scalers
    /\ feature_names = NewPredictor.feature_names
    /\ models_loaded = NewPredictor.models_loaded
    /\ ml_predictor = "None"
    /\ last_load = NoLoad
    /\ result = NoResult
    /\ alert_service = "None"
    /\ database = <<>>
    /\ background_tasks = <<>>
    /\ response = NoResponse
    /\ trainer = NewTrainer
    /\ loading = NotLoading

Init ==
    /\ StartState
    /\ model_dir \in Directories
    /\ sklearn_ok \in BOOLEAN
    /\ trained_sla = DefaultClassifier
    /\ smtp_port_ok = TRUE

ScoringInit ==
    /\ StartState
    /\ model_dir \in ScoringDirectories
    /\ sklearn_ok \in BOOLEAN
    /\ trained_sla \in TrainedClassifiers
    /\ smtp_port_ok = TRUE

ApiInit ==
    /\ StartState
    /\ model_dir \in ApiDirectories
    /\ sklearn_ok \in BOOLEAN
    /\ trained_sla \in TrainedClassifiers
    /\ smtp_port_ok \in BOOLEAN

SetBundle(b) ==
    /\ models' = b.models
    /\ scalers' = b.scalers
    /\ feature_names' = b.feature_names
    /\ models_loaded' = b.models_loaded

\* AlertService(), lines 20-43 of alert_service.py: int() of SMTP_PORT raises
\* on a value that is no number, and lifespan leaves the global None
NewAlertService(portOk) == IF portOk THEN "AlertService" ELSE "None"

\* lifespan, lines 55-70 of main.py: a new MLPredictor, loaded; the global is
\* None when that raises; then the alert service
Lifespan ==
    /\ ml_predictor = "None"
    /\ ~last_load.called
    /\ LET r == LoadModels(NewPredictor, model_dir, sklearn_ok)
       IN /\ SetBundle(r.bundle)
          /\ ml_predictor' = IF r.raised THEN "None" ELSE "MLPredictor"
          /\ last_load' = LoadRecord(r, NewPredictor)
    /\ alert_service' = NewAlertService(smtp_port_ok)
    /\ result' = NoResult
    /\ UNCHANGED <<model_dir, sklearn_ok, process_vars, database, background_tasks,
                   response>>

\* a further load_models() call on the predictor the startup made
CallLoadModels ==
    /\ ml_predictor = "MLPredictor"
    /\ LET r == LoadModels(Bundle, model_dir, sklearn_ok)
       IN /\ SetBundle(r.bundle)
          /\ last_load' = LoadRecord(r, Bundle)
    /\ result' = NoResult
    /\ UNCHANGED <<model_dir, sklearn_ok, ml_predictor, process_vars, api_vars>>

\* no caller holds an answer: the one client sends its next call or request
Idle == result = NoResult /\ response = NoResponse

\* the startup has run: the server admits requests
Started == last_load.called

\* a serving call that marks the bundle not loaded when it raises
ServeDropsFlag(outcomes) ==
    /\ Idle
    /\ result' \in outcomes
    /\ models_loaded' = (models_loaded /\ result'.status # "raised")
    /\ UNCHANGED <<model_dir, sklearn_ok, models, scalers, feature_names,
                   ml_predictor, last_load, process_vars, api_vars>>

\* a serving call: its caller holds no earlier answer
Serve(outcomes) ==
    /\ Idle
    /\ result' \in outcomes
    /\ UNCHANGED <<model_dir, sklearn_ok, models, scalers, feature_names,
                   models_loaded, ml_predictor, last_load, process_vars, api_vars>>

\* the three serving methods, called with a vector of V
PredictSLAViolation(V) ==
    /\ Idle
    /\ \E f \in V : Serve(predict_sla_violation(Bundle, f))

DetectAnomaly(V) ==
    /\ Idle
    /\ \E f \in V : Serve(detect_anomaly(Bundle, f))

ExplainPrediction(V) ==
    /\ Idle
    /\ \E f \in V : Serve(explain_prediction(Bundle, f))

\* the caller is done with the answer it got
Return ==
    /\ ~Idle
    /\ result' = NoResult
    /\ response' = NoResponse
    /\ UNCHANGED <<model_dir, sklearn_ok, models, scalers, feature_names,
                   models_loaded, ml_predictor, last_load, process_vars,
                   alert_service, database, background_tasks>>

CallGetModelInfo ==
    Serve({Returned("get_model_info", <<>>, [kind |-> "info"] @@ GetModelInfo(Bundle))})

\* one file of the directory is written, removed or damaged, or the
\* directory is created empty or removed
ChangeDirectory ==
    /\ \/ /\ model_dir.exists
          /\ \E f \in ArtifactFiles, st \in FileStates :
                /\ st # model_dir.files[f]
                /\ model_dir' = [model_dir EXCEPT !.files[f] = st]
       \/ /\ model_dir.exists
          /\ model_dir' = [exists |-> FALSE, files |-> NoFiles]
       \/ /\ ~model_dir.exists
          /\ model_dir' = [exists |-> TRUE, files |-> NoFiles]
    /\ last_load' = NoLoad
    /\ result' = NoResult
    /\ UNCHANGED <<sklearn_ok, models, scalers, feature_names, models_loaded,
                   ml_predictor, process_vars, api_vars>>

\* the process is restarted in an environment where the import behaves otherwise
ChangeImport ==
    /\ sklearn_ok' = ~sklearn_ok
    /\ last_load' = NoLoad
    /\ result' = NoResult
    /\ UNCHANGED <<model_dir, models, scalers, feature_names, models_loaded,
                   ml_predictor, process_vars, api_vars>>

\* what stays as it is in every request handler and background task
served_vars ==
    <<model_dir, sklearn_ok, models, scalers, feature_names, models_loaded,
      ml_predictor, last_load, result, process_vars, alert_service>>

\* the check that opens /predict/, /predict-and-store/, /explain/ and
\* /anomaly/ read as `not ml_predictor` alone
ModelsAvailablePredictorOnly(p, loaded) == p # "None"

\* not (not ml_predictor or not ml_predictor.models_loaded)
ModelsAvailable(p, loaded) == p # "None" /\ loaded

\* line 251 of main.py, probability over ProbDen
RiskLevel(probability) ==
    IF probability * 10 > 7 * ProbDen THEN "high"
    ELSE IF probability * 10 > 4 * ProbDen THEN "medium"
    ELSE "low"

\* lines 384-385 of main.py, score over ScoreDen
Severity(score) ==
    IF score * 10 > 8 * ScoreDen THEN "high"
    ELSE IF score * 10 > 5 * ScoreDen THEN "medium"
    ELSE "low"

\* the 503 of a handler that found no loaded predictor
NotAvailable(endpoint) ==
    HttpError(endpoint, 503, "ML models not available", NoValue, "none")

\* POST /predict/, lines 217-262 of main.py
Predict(T) ==
    /\ Started
    /\ Idle
    /\ IF ~ModelsAvailable(ml_predictor, models_loaded)
       THEN response' = NotAvailable("/predict/")
       ELSE \E t \in T :
               IF t.bandwidth < 0 \/ t.throughput < 0 \/ t.latency < 0
               THEN response' = HttpError("/predict/", 400, "Invalid input values",
                                           NoValue, "none")
               ELSE \E o \in predict_sla_violation(Bundle, Metrics(t)) :
                       response' =
                          IF o.status = "raised"
                          THEN HttpError("/predict/", 500, "Prediction failed",
                                         NoValue, o.error)
                          ELSE HttpOk("/predict/",
                                      [kind |-> "prediction",
                                       sla_violation |-> o.value.prediction,
                                       risk_score |-> o.value.probability,
                                       confidence |-> o.value.confidence,
                                       risk_level |-> RiskLevel(o.value.probability)],
                                      o.value, <<>>)
    /\ UNCHANGED <<served_vars, database, background_tasks>>

\* GET /explain/{telemetry_id}, lines 318-357 of main.py
Explain ==
    /\ Started
    /\ Idle
    /\ IF ~ModelsAvailable(ml_predictor, models_loaded)
       THEN response' = NotAvailable("/explain/")
       ELSE \E id \in 1..MaxRows :
               IF id > Len(database)
               THEN response' = HttpError("/explain/", 404,
                                           "Telemetry record not found", NoValue, "none")
               ELSE \E o \in explain_prediction(Bundle, Metrics(database[id].telemetry)) :
                       response' =
                          IF o.status = "raised"
                          THEN HttpError("/explain/", 500, "Explanation failed",
                                         NoValue, o.error)
                          ELSE HttpOk("/explain/",
                                      [kind |-> "explained", telemetry_id |-> id,
                                       explanation |-> o.value],
                                      o.value, <<>>)
    /\ UNCHANGED <<served_vars, database, background_tasks>>

\* POST /anomaly/, lines 359-398 of main.py
Anomaly(T) ==
    /\ Started
    /\ Idle
    /\ IF ~ModelsAvailable(ml_predictor, models_loaded)
       THEN response' = NotAvailable("/anomaly/")
       ELSE \E t \in T :
               \E o \in detect_anomaly(Bundle, Metrics(t)) :
                   response' =
                      IF o.status = "raised"
                      THEN HttpError("/anomaly/", 500, "Anomaly detection failed",
                                     NoValue, o.error)
                      ELSE HttpOk("/anomaly/",
                                  [kind |-> "detection",
                                   is_anomaly |-> o.value.is_anomaly,
                                   anomaly_score |-> o.value.anomaly_score,
                                   explanation |-> o.value.explanation,
                                   severity |-> Severity(o.value.anomaly_score)],
                                  o.value, <<>>)
    /\ UNCHANGED <<served_vars, database, background_tasks>>

\* POST /telemetry/, lines 159-178 of main.py: the 400 of the validation is
\* raised inside the try and leaves as the 500 of its except clause
CreateTelemetry(T) ==
    /\ Started
    /\ Idle
    /\ Len(database) < MaxRows
    /\ \E t \in T, dbo \in DbOutcomes :
          LET endpoint == "/telemetry/"
              detail == "Failed to create telemetry record"
              row == NewRow(database, TelemetryDict(t))
          IN IF t.latency < 0 \/ t.packet_loss < 0 \/ t.bandwidth <= 0
                \/ t.throughput < 0
             THEN /\ response' = HttpError(endpoint, 500, detail, NoValue,
                                           "HTTPException 400")
                  /\ UNCHANGED database
             ELSE IF dbo = "failed"
             THEN /\ response' = HttpError(endpoint, 500, detail, NoValue,
                                           "database error")
                  /\ UNCHANGED database
             ELSE /\ response' = HttpOk(endpoint, row, NoValue, <<>>)
                  /\ database' = Append(database, row)
    /\ UNCHANGED <<served_vars, background_tasks>>

\* POST /predict-and-store/, lines 264-315 of main.py, after the prediction o
\* and with the commit ending as dbo
PredictAndStoreAfter(t, o, dbo) ==
    LET endpoint == "/predict-and-store/"
        detail == "Predict and store failed"
        kw == CallWithKeywords(TelemetryDict(t), "sla_violation",
                               BoolOf(o.value.prediction))
        row == NewRow(database, kw.kwargs)
        tasks == HighRiskAlerts(o.value, alert_service, row)
    IN IF o.status = "raised"
       THEN /\ response' = HttpError(endpoint, 500, detail, NoValue, o.error)
            /\ UNCHANGED <<database, background_tasks>>
       ELSE IF kw.raised
       THEN /\ response' = HttpError(endpoint, 500, detail, o.value, "TypeError")
            /\ UNCHANGED <<database, background_tasks>>
       ELSE IF dbo = "failed"
       THEN /\ response' = HttpError(endpoint, 500, detail, o.value, "database error")
            /\ UNCHANGED <<database, background_tasks>>
       ELSE /\ response' = HttpOk(endpoint, row, o.value, tasks)
            /\ database' = Append(database, row)
            /\ background_tasks' = background_tasks \o tasks

PredictAndStore(T) ==
    /\ Started
    /\ Idle
    /\ Len(database) < MaxRows
    /\ Len(background_tasks) < MaxTasks
    /\ IF ~ModelsAvailable(ml_predictor, models_loaded)
       THEN /\ response' = NotAvailable("/predict-and-store/")
            /\ UNCHANGED <<database, background_tasks>>
       ELSE \E t \in T, dbo \in DbOutcomes :
               \E o \in predict_sla_violation(Bundle, Metrics(t)) :
                   PredictAndStoreAfter(t, o, dbo)
    /\ UNCHANGED served_vars

\* POST /models/retrain, lines 653-657 of main.py
RetrainModels ==
    /\ Started
    /\ Idle
    /\ Len(background_tasks) < MaxTasks
    /\ background_tasks' = Append(background_tasks, RetrainTask)
    /\ response' = HttpOk("/models/retrain", [kind |-> "retraining_queued"], NoValue,
                          <<RetrainTask>>)
    /\ UNCHANGED <<served_vars, database>>

\* the framework runs the oldest queued task: retrain_models_task sleeps and
\* logs, send_high_risk_alert hands the alert to the alert service
RunBackgroundTask ==
    /\ background_tasks # <<>>
    /\ background_tasks' = Tail(background_tasks)
    /\ UNCHANGED <<served_vars, database, response>>

\* the life of one predictor: startup, further loads, a directory that changes
Next ==
    \/ Lifespan
    \/ CallLoadModels
    \/ CallGetModelInfo
    \/ Return
    \/ ChangeDirectory
    \/ ChangeImport

Spec == Init /\ [][Next]_vars

\* startup, then serving, on any directory, which does not change
ServeNext ==
    \/ Lifespan
    \/ PredictSLAViolation(ServeVectors)
    \/ DetectAnomaly(ServeVectors)
    \/ ExplainPrediction(ServeVectors)
    \/ CallGetModelInfo
    \/ Return

ServeSpec == Init /\ [][ServeNext]_vars

\* startup, then scoring of many vectors
ScoringNext ==
    \/ Lifespan
    \/ PredictSLAViolation(Vectors)
    \/ DetectAnomaly(Vectors)
    \/ ExplainPrediction(Vectors)
    \/ Return

ScoringSpec == ScoringInit /\ [][ScoringNext]_vars

\* startup, then requests to the endpoints and calls of the serving methods
ApiNext ==
    \/ Lifespan
    \/ CreateTelemetry(ApiTelemetry)
    \/ Predict(ApiTelemetry)
    \/ PredictAndStore(ApiTelemetry)
    \/ Explain
    \/ Anomaly(ApiTelemetry)
    \/ RetrainModels
    \/ RunBackgroundTask
    \/ PredictSLAViolation(ExampleVectors)
    \/ DetectAnomaly(ExampleVectors)
    \/ ExplainPrediction(ExampleVectors)
    \/ CallGetModelInfo
    \/ Return

ApiSpec == ApiInit /\ [][ApiNext]_vars

\* load_and_prepare_data, lines 34-55: the labels of the frame
LoadAndPrepareData ==
    /\ trainer.stage = "new"
    /\ \E row \in TrainRows, randomFactor \in BOOLEAN :
          trainer' = [trainer EXCEPT !.stage = "prepared", !.row = row,
                                     !.random_factor = randomFactor,
                                     !.label = GenerateSLALabels(row, randomFactor)]
    /\ UNCHANGED <<model_dir, sklearn_ok, bundle_vars, ml_predictor, last_load, result,
                   trained_sla, smtp_port_ok, loading, api_vars>>

\* train_models, lines 73-140
TrainModels ==
    /\ trainer.stage = "prepared"
    /\ \E rfScore \in AucScores, xgbScore \in AucScores, explainerOk \in BOOLEAN :
          LET best == SelectBestModel(rfScore, xgbScore)
          IN trainer' = [trainer EXCEPT
                            !.stage = "trained",
                            !.scalers = DictSet(EmptyDict, "standard", "StandardScaler"),
                            !.models = TrainedModels(best, explainerOk),
                            !.rf_score = rfScore, !.xgb_score = xgbScore,
                            !.best_score = best.score]
    /\ UNCHANGED <<model_dir, sklearn_ok, bundle_vars, ml_predictor, last_load, result,
                   trained_sla, smtp_port_ok, loading, api_vars>>

\* save_models, lines 201-222: the directory a later load will read
SaveModels ==
    /\ trainer.stage = "trained"
    /\ trainer' = [trainer EXCEPT !.stage = "saved"]
    /\ model_dir' = [exists |-> TRUE, files |-> SavedFiles(trainer)]
    /\ trained_sla' \in {c \in TrainedClassifiers : c.has_proba}
    /\ last_load' = NoLoad
    /\ result' = NoResult
    /\ UNCHANGED <<sklearn_ok, bundle_vars, ml_predictor, smtp_port_ok, loading,
                   api_vars>>

TrainInit ==
    /\ StartState
    /\ model_dir = [exists |-> FALSE, files |-> NoFiles]
    /\ sklearn_ok = TRUE
    /\ trained_sla = DefaultClassifier
    /\ smtp_port_ok = TRUE

\* one offline training run
TrainNext ==
    \/ LoadAndPrepareData
    \/ TrainModels
    \/ SaveModels

TrainSpec == TrainInit /\ [][TrainNext]_vars

\* lines 57-58 of main.py with load_models() running beside the callers of
\* the predictor: the global is assigned, then the load begins
BeginLoad ==
    /\ ~loading.started
    /\ ml_predictor = "None"
    /\ ml_predictor' = "MLPredictor"
    /\ loading' = [started |-> TRUE,
                   steps |-> LoadSteps(NewPredictor, model_dir, sklearn_ok)]
    /\ UNCHANGED <<model_dir, sklearn_ok, bundle_vars, last_load, result, trained_sla,
                   smtp_port_ok, trainer, api_vars>>

\* the next assignment of the load; the last one ends the call
LoadStep ==
    /\ loading.steps # <<>>
    /\ SetBundle(Head(loading.steps))
    /\ loading' = [loading EXCEPT !.steps = Tail(@)]
    /\ last_load' = IF Tail(loading.steps) = <<>>
                    THEN LoadRecord(LoadModels(NewPredictor, model_dir, sklearn_ok),
                                    NewPredictor)
                    ELSE last_load
    /\ UNCHANGED <<model_dir, sklearn_ok, ml_predictor, result, trained_sla,
                   smtp_port_ok, trainer, api_vars>>

\* a first load interleaved with serving calls
InterleavedNext ==
    \/ BeginLoad
    \/ LoadStep
    \/ PredictSLAViolation(ServeVectors)
    \/ DetectAnomaly(ServeVectors)
    \/ ExplainPrediction(ServeVectors)
    \/ Return

InterleavedSpec == Init /\ [][InterleavedNext]_vars

----------------------------------------------------------------------------
(* Properties.                                                             *)

ServingOps == {"predict_sla_violation", "detect_anomaly", "explain_prediction"}

HasTrained(d) == \E i \in 1..Len(d) : d[i].v = "trained"

FallbackDetectorInUse ==
    /\ DictHas(models, "anomaly_detector")
    /\ DictGet(models, "anomaly_detector") = "fallback"
    /\ DictHas(scalers, "standard")
    /\ DictGet(scalers, "standard") = "fallback"

\* C1: a serving call made while models_loaded is false raises the not-loaded
\* error, returns no value and changes none of models, scalers, feature_names
\* and models_loaded, whatever the vector
C1_NotLoadedRaises ==
    [][(/\ ~models_loaded
        /\ result = NoResult
        /\ result' # NoResult
        /\ result'.op \in ServingOps)
       => (/\ result'.status = "raised"
           /\ result'.error = "not_loaded"
           /\ result'.value = NoValue
           /\ UNCHANGED bundle_vars)]_vars

\* a call refused on a predictor that holds a classifier but is not loaded
C1_Witness ==
    /\ ~models_loaded
    /\ DictHas(models, "sla_predictor")
    /\ result.op = "predict_sla_violation"
    /\ result.error = "not_loaded"

\* C2 as claimed: whenever load_models() has returned, models_loaded is true
C2_AlwaysReady == last_load.called => models_loaded

\* C2 amended: when load_models() has returned, models_loaded is true exactly
\* when fallback construction did not fail in that call; a failed fallback
\* leaves the predictor not loaded
C2_ReadyUnlessFallbackFailed ==
    last_load.called => (models_loaded <=> last_load.fallback # "failed")

\* a load that threw part-way and reached READY through the fallback bank
C2_Witness ==
    /\ last_load.called
    /\ last_load.threw
    /\ last_load.fallback = "created"
    /\ models_loaded

\* C3: load_models() lets no exception reach its caller, so the startup code
\* keeps the predictor it made
C3_LoadNeverRaises ==
    last_load.called => (~last_load.raised /\ ml_predictor = "MLPredictor")

\* a load in which an artifact threw and the fallback bank failed too
C3_Witness ==
    /\ last_load.called
    /\ last_load.threw
    /\ last_load.fallback = "failed"
    /\ ml_predictor = "MLPredictor"

\* C4 as claimed: after load_models() on a directory holding any subset of the
\* artifact files, none of them damaged, no serving call on a 6-value vector
\* is refused with the not-loaded error
C4_AbsentFilesRecoverable ==
    (/\ last_load.called
     /\ sklearn_ok
     /\ \A f \in ArtifactFiles : model_dir.files[f] # "corrupt"
     /\ result.op \in ServingOps
     /\ Len(result.features) = 6)
    => result.error # "not_loaded"

\* C5 as claimed: after a load that threw part-way and built the fallback
\* bank, no trained artifact is left in models or scalers
C5_NoTrainedAfterFailedLoad ==
    (last_load.called /\ last_load.threw /\ last_load.fallback = "created")
    => (~HasTrained(models) /\ ~HasTrained(scalers))

\* C6: a load_models() call that follows another one, the directory and the
\* process unchanged in between, leaves get_model_info() as the first left it
C6_LoadIdempotent ==
    last_load.repeat => GetModelInfo(Bundle) = last_load.prev_info

\* a second load of a directory that holds trained models
C6_Witness ==
    /\ last_load.repeat
    /\ last_load.fallback = "none"
    /\ models_loaded
    /\ HasTrained(models)
    /\ Len(feature_names) = 6

\* C7: every result of predict_sla_violation on a valid vector has prediction
\* 0 or 1 and probability and confidence within [0, 1]
C7_RiskInRange ==
    (result.op = "predict_sla_violation" /\ result.status = "returned")
    => (/\ result.value.prediction \in {0, 1}
        /\ result.value.probability \in 0..ProbDen
        /\ result.value.confidence \in 0..ProbDen)

\* a fallback prediction whose three risks are all capped: probability 1
C7_Witness ==
    /\ result.op = "predict_sla_violation"
    /\ result.status = "returned"
    /\ DictGet(models, "sla_predictor") = "fallback"
    /\ result.value.probability = ProbDen
    /\ result.features[5] > 200

\* C8 as claimed: no vector gets label 0 with a probability above that of a
\* vector that got label 1 (one threshold separates the labels)
C8_LabelFollowsThreshold ==
    (result.op = "predict_sla_violation" /\ result.status = "returned"
     /\ result.value.prediction = 1)
    => \A f \in Vectors : \A other \in predict_sla_violation(Bundle, f) :
          other.status = "returned" /\ other.value.prediction = 0
          => other.value.probability <= result.value.probability

\* C9: every result of detect_anomaly on a valid vector has anomaly_score
\* within [0, 1]; under the fallback detector and scaler the score is
\* (latency/30 + packet_loss/20 + jitter/10) / 6, at most 1
C9_AnomalyScoreInRange ==
    (result.op = "detect_anomaly" /\ result.status = "returned")
    => (/\ result.value.anomaly_score \in 0..ScoreDen
        /\ FallbackDetectorInUse =>
              result.value.anomaly_score =
                 Min(ScoreDen, 2 * result.features[5] + 3 * result.features[4]
                               + 6 * result.features[6]))

\* a fallback score at the clamp: the raw score was below -1
C9_Witness ==
    /\ result.op = "detect_anomaly"
    /\ result.status = "returned"
    /\ FallbackDetectorInUse
    /\ result.value.anomaly_score = ScoreDen
    /\ 2 * result.features[5] + 3 * result.features[4] + 6 * result.features[6]
          > ScoreDen

\* C10 as claimed: under the fallback rules a vector reported anomalous never
\* scores below a vector reported not anomalous
C10_AnomalyMonotone ==
    (result.op = "detect_anomaly" /\ result.status = "returned"
     /\ FallbackDetectorInUse /\ result.value.is_anomaly)
    => \A f \in Vectors : \A other \in detect_anomaly(Bundle, f) :
          other.status = "returned" /\ ~other.value.is_anomaly
          => other.value.anomaly_score <= result.value.anomaly_score

\* C11: in every loaded state, explain_prediction on a 6-value vector returns,
\* and its feature_importance is keyed by exactly the six feature names in
\* their order, with six shap_values and a base_value beside it, whether the
\* trained explainer answered, raised, or is absent
C11_ExplainShape ==
    (result.op = "explain_prediction" /\ models_loaded /\ Len(result.features) = 6)
    => (/\ result.status = "returned"
        /\ DictKeys(result.value.feature_importance) = FeatureNames
        /\ Len(result.value.shap_values) = 6
        /\ "base_value" \in DOMAIN result.value)

\* the trained explainer raised and the simple explanation was returned
C11_Witness ==
    /\ result.op = "explain_prediction"
    /\ result.status = "returned"
    /\ DictHas(models, "shap_explainer")
    /\ result.logged = "explainer_error"
    /\ Len(result.features) = 6
    /\ DictKeys(result.value.feature_importance) = FeatureNames

\* C12: a predict_sla_violation call on the vector of an earlier one, against
\* the same loaded bundle, returns the prediction and the probability the
\* earlier one returned (the confidence may differ); and no serving call in
\* between changes the bundle or the classifier the two calls use
C12_SamePrediction ==
    /\ [](result.op = "predict_sla_violation" /\ result.status = "returned"
          => \A again \in predict_sla_violation(Bundle, result.features) :
                again.status = "returned"
                => /\ again.value.prediction = result.value.prediction
                   /\ again.value.probability = result.value.probability)
    /\ [][last_load.called => UNCHANGED <<bundle_vars, trained_sla>>]_vars

\* a trained classifier answered, and a second call can draw another confidence
C12_Witness ==
    /\ result.op = "predict_sla_violation"
    /\ result.status = "returned"
    /\ DictGet(models, "sla_predictor") = "trained"
    /\ result.value.probability = TrainedProbaSeq[4]
    /\ \E again \in predict_sla_violation(Bundle, result.features) :
          again.status = "returned" /\ again.value.confidence # result.value.confidence

\* C13 as claimed: under the fallback classifier every predict_sla_violation
\* call reports the same confidence: whatever a call returned, a further
\* call on the same vector returns that confidence too
C13_FallbackConfidenceFixed ==
    (/\ result.op = "predict_sla_violation"
     /\ result.status = "returned"
     /\ DictGet(models, "sla_predictor") = "fallback")
    => \A again \in predict_sla_violation(Bundle, result.features) :
          again.status = "returned"
          => again.value.confidence = result.value.confidence

\* C14 as claimed: a serving call on a vector that has not six values raises
C14_WrongLengthRejected ==
    (result.op \in ServingOps /\ Len(result.features) # 6)
    => result.status = "raised"

\* C15 as claimed: a serving call in which the model raised (the except
\* clause of the method logged an error) raises to its caller
C15_ErrorsPropagate ==
    (result.op \in ServingOps /\ Len(result.features) = 6 /\ result.logged # "none")
    => result.status = "raised"

\* C16: under the fallback classifier the label is 1 exactly when latency > 10
\* or packet_loss > 5 or throughput < 1, each bound excluded; the first
\* example vector gets 0, the second 1
C16_FallbackLabelRule ==
    (/\ result.op = "predict_sla_violation"
     /\ result.status = "returned"
     /\ DictGet(models, "sla_predictor") = "fallback")
    => (/\ result.value.prediction = 1
            <=> (\/ result.features[5] > 10 * 10
                 \/ result.features[4] > 5 * 10
                 \/ result.features[2] < 1 * 10)
        /\ result.features = <<1000, 200, 100, 10, 50, 5>>
            => result.value.prediction = 0
        /\ result.features = <<500, 50, 900, 80, 250, 60>>
            => result.value.prediction = 1)

\* a vector with all three metrics on their bounds, labelled 0
C16_Witness ==
    /\ result.op = "predict_sla_violation"
    /\ result.status = "returned"
    /\ DictGet(models, "sla_predictor") = "fallback"
    /\ result.features[5] = 100 /\ result.features[4] = 50 /\ result.features[2] = 10
    /\ result.value.prediction = 0

\* C17: under the fallback detector and the identity scaler is_anomaly is
\* true exactly when latency > 20 or packet_loss > 15 or jitter > 5, each
\* bound excluded, whatever bandwidth, throughput and congestion are; the
\* first example vector is not anomalous, the second is
C17_FallbackAnomalyRule ==
    (result.op = "detect_anomaly" /\ result.status = "returned" /\ FallbackDetectorInUse)
    => (/\ result.value.is_anomaly
            <=> (\/ result.features[5] > 20 * 10
                 \/ result.features[4] > 15 * 10
                 \/ result.features[6] > 5 * 10)
        /\ result.features = <<1000, 200, 100, 10, 50, 5>>
            => ~result.value.is_anomaly
        /\ result.features = <<500, 50, 900, 80, 250, 60>>
            => result.value.is_anomaly)

\* a vector with all three metrics on their bounds, not anomalous, on a
\* congested link without throughput
C17_Witness ==
    /\ result.op = "detect_anomaly"
    /\ result.status = "returned"
    /\ FallbackDetectorInUse
    /\ result.features[5] = 200 /\ result.features[4] = 150 /\ result.features[6] = 50
    /\ result.features[2] = 0 /\ result.features[3] = 900
    /\ ~result.value.is_anomaly

\* C18: once the startup has loaded the bundle, no step changes models,
\* scalers, feature_names or models_loaded: no serving call and no
\* get_model_info, returning or raising, no request to an endpoint, and no
\* background task, the one of /models/retrain included
C18_BundleReadOnly == [][Started => UNCHANGED bundle_vars]_vars

\* a record was stored, a retraining was requested and its task has run, and
\* the bundle is loaded
C18_Witness ==
    /\ Started
    /\ models_loaded
    /\ response.endpoint = "/models/retrain"
    /\ background_tasks = <<>>
    /\ Len(database) > 0

\* C19 as claimed: a /predict-and-store/ request whose prediction returned and
\* whose database did not fail is answered 200 with the one record it stored,
\* which carries the metrics of the request and the predicted label
C19_PredictAndStoreStores ==
    (/\ response.endpoint = "/predict-and-store/"
     /\ response.prediction.kind = "risk"
     /\ response.logged # "database error")
    => (/\ response.status = 200
        /\ response.body \in {database[i] : i \in 1..Len(database)}
        /\ Metrics(response.body.telemetry) \in ApiMetrics
        /\ response.body.telemetry.sla_violation = BoolOf(response.prediction.prediction))

\* C20 as claimed: a /predict-and-store/ request whose prediction has a
\* probability above 0.75, handled while the alert service is available and
\* the database works, queues a send_high_risk_alert task
C20_HighRiskAlertScheduled ==
    (/\ response.endpoint = "/predict-and-store/"
     /\ response.prediction.kind = "risk"
     /\ response.prediction.probability * 100 > 75 * ProbDen
     /\ response.logged # "database error"
     /\ alert_service = "AlertService")
    => \E i \in 1..Len(response.scheduled) :
          response.scheduled[i].task = "send_high_risk_alert"

RECURSIVE SeqSum(_)
SeqSum(q) == IF q = <<>> THEN 0 ELSE Head(q) + SeqSum(Tail(q))

\* explain_prediction answered with the heuristic explanation
SimpleExplanationReturned ==
    /\ result.op = "explain_prediction"
    /\ result.status = "returned"
    /\ ~DictHas(models, "shap_explainer") \/ result.logged = "explainer_error"

\* C21: on the fallback explanation path the contribution of feature i is
\* min(value/10, 1) times its weight, the weights being 0.1, 0.15, 0.2, 0.25,
\* 0.25, 0.05 with sum 1, and base_value is 0.5; so each contribution lies
\* between 0 and its weight and the contributions sum to at most 1
C21_SimpleExplanationWeights ==
    SimpleExplanationReturned
    => (/\ ImportanceWeights = <<10, 15, 20, 25, 25, 5>>
        /\ SeqSum(ImportanceWeights) * 100 = ImportanceDen
        /\ Len(result.value.shap_values) = 6
        /\ \A i \in 1..6 :
              /\ result.value.shap_values[i]
                    = Min(result.features[i], 10 * 10) * ImportanceWeights[i]
              /\ result.value.feature_importance[i].v = result.value.shap_values[i]
              /\ result.value.shap_values[i] >= 0
              /\ result.value.shap_values[i] <= 100 * ImportanceWeights[i]
        /\ SeqSum(result.value.shap_values) <= ImportanceDen
        /\ 2 * result.value.base_value = ImportanceDen)

\* a heuristic explanation with clamped values (bandwidth 50, latency 25) and
\* a jitter below 10
C21_Witness ==
    /\ SimpleExplanationReturned
    /\ result.features = <<500, 50, 900, 80, 250, 60>>
    /\ result.value.shap_values[5] = 100 * ImportanceWeights[5]
    /\ result.value.shap_values[6] = 60 * ImportanceWeights[6]

\* C25 as claimed: a predictor running the fallback bank reports
\* models_loaded true and the get_model_info output of a predictor that
\* loaded a trained classifier and a trained detector, no explainer
C25_FallbackInfoAsTrained ==
    (last_load.called /\ last_load.fallback = "created")
    => GetModelInfo(Bundle)
         = GetModelInfo(LoadModels(NewPredictor,
               [exists |-> TRUE,
                files |-> [NoFiles EXCEPT !["sla_predictor"] = "ok",
                                          !["anomaly_detector"] = "ok"]],
               TRUE).bundle)

\* C26 as claimed: after any sequence of load_models() calls the classifier,
\* the detector and the scaler in use are all trained or all fallback
C26_BundleHomogeneous ==
    last_load.called
    => \/ /\ ~HasTrained(scalers)
          /\ \A k \in {"sla_predictor", "anomaly_detector"} :
                DictHas(models, k) => (DictGet(models, k) = "fallback")
       \/ /\ \A k \in {"sla_predictor", "anomaly_detector"} :
                DictHas(models, k) => (DictGet(models, k) = "trained")
          /\ DictHas(scalers, "standard") => (DictGet(scalers, "standard") = "trained")

\* C28: under the fallback detector and scaler, a detect_anomaly result with
\* is_anomaly true names high latency, high packet loss or high jitter and
\* never carries the generic text; the text of normal parameters comes with
\* is_anomaly false only
C28_FallbackAnomalyExplained ==
    (result.op = "detect_anomaly" /\ result.status = "returned" /\ FallbackDetectorInUse)
    => LET texts == {result.value.explanation[i] :
                        i \in 1..Len(result.value.explanation)}
       IN /\ result.value.is_anomaly
               => /\ texts \cap {"High latency detected", "High packet loss detected",
                                 "High jitter detected"} # {}
                  /\ "Anomalous pattern detected in network metrics" \notin texts
          /\ "Network metrics are within normal parameters" \in texts
               => ~result.value.is_anomaly

\* an anomaly by latency alone, 25 ms: explained by the latency text only
C28_Witness ==
    /\ result.op = "detect_anomaly"
    /\ result.status = "returned"
    /\ FallbackDetectorInUse
    /\ result.value.is_anomaly
    /\ result.features = <<500, 200, 100, 10, 250, 5>>
    /\ result.value.explanation = <<"High latency detected">>

\* C29 as claimed: /telemetry/ answers 500 only when storing the record
\* failed; a body with bandwidth 0 is answered 400 and nothing is stored
C29_InvalidTelemetryIs400 ==
    response.endpoint = "/telemetry/"
    => /\ response.status = 500 => response.logged = "database error"
       /\ response.logged = "HTTPException 400" => response.status = 400

PredictorEndpoints == {"/predict/", "/predict-and-store/", "/explain/", "/anomaly/"}

\* C24: a request is answered only after the startup has run its one load,
\* which no later step repeats; /predict/, /predict-and-store/, /explain/{id}
\* and /anomaly/ answer 503, the predictor not called, whenever the global
\* is None or models_loaded is false, and call it in no other state
C24_NoRequestBeforeLoaded ==
    /\ [](response.endpoint # "none" => Started)
    /\ [](response.endpoint \in PredictorEndpoints
          => IF ml_predictor = "None" \/ ~models_loaded
             THEN /\ response.status = 503
                  /\ response.prediction.kind = "none"
                  /\ response.logged = "none"
             ELSE response.status # 503)
    /\ [][Started => last_load' = last_load]_vars

\* the fallback bank could not be built: /anomaly/ answers 503
C24_Witness ==
    /\ Started
    /\ ml_predictor = "MLPredictor"
    /\ ~models_loaded
    /\ response.endpoint = "/anomaly/"
    /\ response.status = 503

\* C30 as claimed: a /predict/ response with sla_violation 1 never carries
\* risk_level "low"
C30_ViolationNeverLowRisk ==
    (response.endpoint = "/predict/" /\ response.status = 200
     /\ response.body.sla_violation = 1)
    => response.body.risk_level # "low"

\* C22: label generation marks a row 1 whenever latency > 15 or packet_loss
\* > 5 or jitter > 3 or congestion > 80 or throughput/bandwidth < 0.3, each
\* bound excluded; the noise only turns a 0 into a 1; a row with latency
\* exactly 15 and no other condition met is 1 only through noise
C22_TrainingLabels ==
    trainer.stage # "new"
    => LET row == trainer.row
           met == \/ row[5] > 15 * 10
                  \/ row[4] > 5 * 10
                  \/ row[6] > 3 * 10
                  \/ row[3] > 80 * 10
                  \/ (row[1] # 0 /\ 10 * row[2] < 3 * row[1])
       IN /\ trainer.label \in {0, 1}
          /\ met => trainer.label = 1
          /\ (trainer.label = 1 /\ ~met) => trainer.random_factor
          /\ (row[5] = 15 * 10 /\ ~met) => (trainer.label = 1 <=> trainer.random_factor)

\* a row on every bound (latency 15, packet_loss 5, jitter 3, congestion 80,
\* throughput 0.3 of bandwidth), without noise: label 0
C22_Witness ==
    /\ trainer.stage = "prepared"
    /\ trainer.row = <<100, 30, 800, 50, 150, 30>>
    /\ ~trainer.random_factor
    /\ trainer.label = 0

\* C23: train_models keeps as sla_predictor the candidate whose AUC is at
\* least the other's, the random forest on a tie, and stores both candidates
\* under rf_baseline and xgb_production whichever it selected
C23_ModelSelection ==
    trainer.stage \in {"trained", "saved"}
    => LET best == DictGet(trainer.models, "sla_predictor")
       IN /\ best \in {"RandomForest", "XGBoost"}
          /\ best = "RandomForest" => trainer.rf_score >= trainer.xgb_score
          /\ best = "XGBoost" => trainer.xgb_score > trainer.rf_score
          /\ trainer.best_score = Max(trainer.rf_score, trainer.xgb_score)
          /\ DictHas(trainer.models, "rf_baseline")
          /\ DictGet(trainer.models, "rf_baseline") = "RandomForest"
          /\ DictHas(trainer.models, "xgb_production")
          /\ DictGet(trainer.models, "xgb_production") = "XGBoost"

\* a tie: the random forest is kept, XGBoost retained beside it
C23_Witness ==
    /\ trainer.stage = "trained"
    /\ trainer.rf_score = trainer.xgb_score
    /\ DictGet(trainer.models, "sla_predictor") = "RandomForest"
    /\ DictGet(trainer.models, "xgb_production") = "XGBoost"

\* C27: in a first load_models() call that runs beside serving calls, setting
\* models_loaded to true is the last change the load makes, and what it leaves
\* is what the call made in one piece leaves; so a serving call that passes
\* the loaded check runs against nothing the load still replaces
C27_LoadedFlagSetLast ==
    /\ [](models_loaded => loading.started /\ loading.steps = <<>>)
    /\ [](loading.started /\ loading.steps = <<>>
          => Bundle = LoadModels(NewPredictor, model_dir, sklearn_ok).bundle)
    /\ [][(result' # result /\ result'.op \in ServingOps
                            /\ result'.error # "not_loaded")
          => (loading.steps = <<>> /\ Bundle = Bundle')]_vars

\* a trained classifier is in models, the load has still to replace it with
\* the fallback one, and a prediction asked meanwhile was refused
C27_Witness ==
    /\ loading.started
    /\ Len(loading.steps) > 1
    /\ DictHas(models, "sla_predictor")
    /\ DictGet(models, "sla_predictor") = "trained"
    /\ DictGet(loading.steps[Len(loading.steps)].models, "sla_predictor") = "fallback"
    /\ result.op = "predict_sla_violation"
    /\ result.error = "not_loaded"

====
